---- MODULE Spec2Model ----
(***************************************************************************)
(* flrigWebRemote browser client (static/js/app.js, current revision):     *)
(* the WebRTC audio session, the push-to-talk toggle and the iambic CW     *)
(* keyer, as one state machine.                                            *)
(*                                                                         *)
(* JavaScript runs one handler at a time; an async function runs up to its *)
(* next await and is resumed later.  Every action below is one such run:   *)
(* an event handler, a timer callback, or the resumption of an async       *)
(* function after an await, together with every call it makes.             *)
(*                                                                         *)
(* Time is counted in units of 50/17 ms, the largest unit in which every   *)
(* timer of the program is a whole number (a dit at 17 WPM is 24 units).   *)
(* Timers fire at their deadline; time advances from one deadline to the   *)
(* next.                                                                   *)
(***************************************************************************)
EXTENDS Integers, Sequences, FiniteSets, TLC

\* ---------------------------------------------------------------- bounds
MaxPc == 2        \* RTCPeerConnection objects created in one run
MaxTasks == 3     \* async continuations and one-shot timers in flight at once
MaxAcks == 1      \* ptt_control commands whose ptt_response is still awaited
MaxCount == 5     \* ceiling of the scenario counters nOn and nDit
MaxTune == 2      \* tune auto-reset timers pending at once
MaxInit == 3      \* startCWTone calls counted while they wait for the AudioContext

\* ------------------------------------------------------ program constants
CW_WPM == 17
CW_PTT_HANG_MS == 300
PTT_SETTLE_MS == 50
FLUSH_DELAY_MS == 50
TUNE_TIMEOUT_MS == 10000

\* milliseconds to time units (one unit = 50/17 ms)
Ms(x) == (x * CW_WPM) \div 50
\* const DIT_MS = 1200 / CW_WPM
DIT_MS == Ms(1200) \div CW_WPM
\* const DAH_MS = DIT_MS * 3
DAH_MS == DIT_MS * 3

NoTimer == 0 - 1
NoKeyerTimer == [kind |-> "none", rem |-> NoTimer]

VARIABLES
  pc,                    \* the global pc: 0 is null, else the id of a transport
  nPc,                   \* transports created so far (ids 1..nPc)
  tp,                    \* the RTCPeerConnection objects, by id
  webrtcConnected,
  rxMuted,               \* rxAudioEl.muted
  rxSrc,                 \* rxAudioEl.srcObject: 0 is null, else the transport whose inbound stream is bound
  micEnabled,            \* window.micEnabled
  micStream,             \* "none" (null), "live", "stopped" (its track was stopped)
  pttActive,
  pttByButton,           \* the transmit now in force was engaged with the PTT button
  wasListeningBeforePTT,
  audioRunning,          \* audioContext.state is 'running' (then cwGainNode and cwDestination exist)
  cwOscillator,          \* cwOscillator is not null
  toneOn,                \* an oscillator feeds cwGainNode and the gain is ramped to 0.5
  cwToneSender,          \* 0 is null, else the transport the tone sender belongs to
  toneTrackLive,         \* the tone track of cwDestination.stream has not been stopped
  leftCtrlPressed,
  rightCtrlPressed,
  keyerState,
  pendingElement,
  keyerTimer,            \* the outstanding element or inter-element timer
  cwPTTHangTimer,        \* NoTimer is null, else the time left
  tasks,                 \* async functions suspended at an await, counted by place
  settleTimers,          \* startCWTone instances in their 50 ms PTT settle wait: time left of each
  flushTimers,           \* flushRXAudioBuffers timers: time left and the stream to re-bind
  tuneActive,
  tuneTimers,            \* tune auto-reset timers: time left of each
  pttPending,            \* ptt_control commands not yet answered by a ptt_response
  tunePending,           \* tune_control commands not yet answered by a tune_response, oldest first
  out,                   \* ptt_control and tune_control actions emitted by the latest step
  threw,                 \* the latest step ended in an uncaught error
  lastElement,           \* the element the keyer started last
  scen,                  \* scripted paddle scenario in progress ("free": none)
  holdTimer,             \* time left of the scripted 500 ms hold
  nOn,                   \* transmit-on commands emitted during a scenario
  nDit,                  \* dit elements completed during a scenario
  runOns                 \* transmit-on commands since the hang timer last ran

vars == << pc, nPc, tp, webrtcConnected, rxMuted, rxSrc, micEnabled, micStream,
           pttActive, pttByButton, wasListeningBeforePTT, audioRunning, cwOscillator, toneOn,
           cwToneSender, toneTrackLive, leftCtrlPressed, rightCtrlPressed,
           keyerState, pendingElement, keyerTimer, cwPTTHangTimer, tasks,
           settleTimers, flushTimers, tuneActive, tuneTimers, pttPending,
           tunePending, out,
           threw, lastElement, scen, holdTimer, nOn, nDit, runOns >>

\* ----------------------------------------------------------------- tasks
T(f, a, q) == [fn |-> f, at |-> a, p |-> q]

Pcs == 1..MaxPc

TaskIds ==
  {T("sw", a, 0) : a \in {"resume", "offer", "fetch"}}
    \cup {T("cm", a, 0) : a \in {"gum", "offer", "fetch"}}
    \cup {T("cw", a, 0) : a \in {"init", "offer", "fetch"}}
    \cup {T(f, "remote", q) : f \in {"sw", "cm", "cw"}, q \in Pcs}
    \cup {T("stop", "teardown", q) : q \in 0..MaxPc}

RECURSIVE SumOver(_, _)
SumOver(f, D) ==
  IF D = {} THEN 0
  ELSE LET d == CHOOSE x \in D : TRUE IN f[d] + SumOver(f, D \ {d})

\* the state the handlers read and write, as one record
S ==
  [pc |-> pc, nPc |-> nPc, tp |-> tp, webrtcConnected |-> webrtcConnected,
   rxMuted |-> rxMuted, rxSrc |-> rxSrc, micEnabled |-> micEnabled,
   micStream |-> micStream, pttActive |-> pttActive,
   pttByButton |-> pttByButton,
   wasListeningBeforePTT |-> wasListeningBeforePTT,
   audioRunning |-> audioRunning, cwOscillator |-> cwOscillator,
   toneOn |-> toneOn, cwToneSender |-> cwToneSender,
   toneTrackLive |-> toneTrackLive, leftCtrlPressed |-> leftCtrlPressed,
   rightCtrlPressed |-> rightCtrlPressed, keyerState |-> keyerState,
   pendingElement |-> pendingElement, keyerTimer |-> keyerTimer,
   cwPTTHangTimer |-> cwPTTHangTimer, tasks |-> tasks,
   settleTimers |-> settleTimers, flushTimers |-> flushTimers,
   tuneActive |-> tuneActive, tuneTimers |-> tuneTimers,
   pttPending |-> pttPending, tunePending |-> tunePending, out |-> << >>, threw |-> FALSE,
   lastElement |-> lastElement, scen |-> scen, holdTimer |-> holdTimer,
   nOn |-> nOn, nDit |-> nDit, runOns |-> runOns]

Set(r) ==
  /\ pc' = r.pc
  /\ nPc' = r.nPc
  /\ tp' = r.tp
  /\ webrtcConnected' = r.webrtcConnected
  /\ rxMuted' = r.rxMuted
  /\ rxSrc' = r.rxSrc
  /\ micEnabled' = r.micEnabled
  /\ micStream' = r.micStream
  /\ pttActive' = r.pttActive
  /\ pttByButton' = (r.pttByButton /\ r.pttActive)
  /\ wasListeningBeforePTT' = r.wasListeningBeforePTT
  /\ audioRunning' = r.audioRunning
  /\ cwOscillator' = r.cwOscillator
  /\ toneOn' = r.toneOn
  /\ cwToneSender' = r.cwToneSender
  /\ toneTrackLive' = r.toneTrackLive
  /\ leftCtrlPressed' = r.leftCtrlPressed
  /\ rightCtrlPressed' = r.rightCtrlPressed
  /\ keyerState' = r.keyerState
  /\ pendingElement' = r.pendingElement
  /\ keyerTimer' = r.keyerTimer
  /\ cwPTTHangTimer' = r.cwPTTHangTimer
  /\ tasks' = r.tasks
  /\ settleTimers' = r.settleTimers
  /\ flushTimers' = r.flushTimers
  /\ tuneActive' = r.tuneActive
  /\ tuneTimers' = r.tuneTimers
  /\ pttPending' = r.pttPending
  /\ tunePending' = r.tunePending
  /\ out' = r.out
  /\ threw' = r.threw
  /\ lastElement' = r.lastElement
  /\ scen' = r.scen
  /\ holdTimer' = r.holdTimer
  /\ nOn' = r.nOn
  /\ nDit' = r.nDit
  /\ runOns' = r.runOns

\* startCWTone calls waiting for the AudioContext are counted apart, up to
\* MaxInit: on resumption the first keys PTT, the second adds the tone track
\* and every further one finds both done
InFlight(r) ==
  SumOver(r.tasks, TaskIds \ {T("cw", "init", 0)})
    + Len(r.settleTimers) + Len(r.flushTimers)

\* the model's bounds, as a guard on every step
Bounded(r) ==
  /\ r.nPc <= MaxPc
  /\ InFlight(r) <= MaxTasks
  /\ Len(r.tuneTimers) <= MaxTune

Do(r) == Bounded(r) /\ Set(r)

add(s, t) == [s EXCEPT !.tasks[t] = @ + 1]
del(s, t) == [s EXCEPT !.tasks[t] = @ - 1]
Waiting(t) == tasks[t] > 0
\* an uncaught error ends the async function
throw(s) == [s EXCEPT !.threw = TRUE]

NewPc ==
  [st |-> "new", sig |-> "stable", ontrack |-> FALSE, remote |-> FALSE,
   inb |-> "none", rcvStopped |-> FALSE, mic |-> "none", tone |-> FALSE,
   toneOffers |-> 0, toneAsks |-> 0]

\* socket.emit('ptt_control', { action: c })
emit(s, c) ==
  [s EXCEPT !.out = Append(@, c),
            !.pttPending = IF @ < MaxAcks THEN @ + 1 ELSE @,
            !.nOn = IF c = "on" /\ s.scen # "free" /\ @ < MaxCount THEN @ + 1 ELSE @,
            !.runOns = IF c = "on" /\ @ < 2 THEN @ + 1 ELSE @]

\* ------------------------------------------------------- the audio session
\* new RTCPeerConnection, handlers, addTransceiver, the mic track if enabled,
\* up to the await of createOffer
createPc(s) ==
  LET id == s.nPc + 1 IN
  IF id > MaxPc THEN [s EXCEPT !.nPc = id]
  ELSE add([s EXCEPT !.nPc = id,
                     !.pc = id,
                     !.tp[id] = [NewPc EXCEPT
                        !.st = "open",
                        !.ontrack = TRUE,
                        !.mic = IF s.micEnabled /\ s.micStream # "none"
                                THEN "cur" ELSE "none"]],
           T("sw", "offer", 0))

startWebRTC(s) ==
  IF s.webrtcConnected THEN s
  ELSE IF ~s.audioRunning THEN add(s, T("sw", "resume", 0))
  ELSE createPc(s)

\* the body of `if (pc) { ... }` in stopWebRTC
closePc(s) ==
  LET p == s.pc IN
  [s EXCEPT !.micStream = IF s.tp[p].mic = "cur" /\ @ = "live" THEN "stopped" ELSE @,
            !.toneTrackLive = IF s.tp[p].tone THEN FALSE ELSE @,
            !.tp[p].rcvStopped = TRUE,
            !.tp[p].ontrack = FALSE,
            !.tp[p].st = "closed"]

stopWebRTC_NoPcGuard(s) ==
  LET s1 == [s EXCEPT !.rxSrc = 0] IN
  IF s1.pc = 0
  THEN throw([s1 EXCEPT !.webrtcConnected = FALSE])
  ELSE add(closePc(s1), T("stop", "teardown", s.pc))

\* stopWebRTC up to the await of the teardown request
stopWebRTC(s) ==
  LET s1 == [s EXCEPT !.rxSrc = 0]
      s2 == IF s1.pc # 0 THEN closePc(s1) ELSE s1
  IN add(s2, T("stop", "teardown", s.pc))

applyAnswer_PlayMuted(s, p, muted) ==
  LET s1 == [s EXCEPT !.tp[p].sig = "stable", !.tp[p].remote = TRUE] IN
  IF s.tp[p].inb = "none" /\ s.tp[p].ontrack
  THEN [s1 EXCEPT !.tp[p].inb = IF muted THEN "muted" ELSE "live",
                  !.rxSrc = p, !.rxMuted = FALSE]
  ELSE s1

\* setRemoteDescription(answer) resolved on transport p; the first answer
\* delivers the inbound track to pc.ontrack, muted or not.  The inbound track
\* is "none" (not delivered), "muted" (delivered, never active yet), "live",
\* or "quiet" (muted again after having been active)
applyAnswer(s, p, muted) ==
  LET s1 == [s EXCEPT !.tp[p].sig = "stable", !.tp[p].remote = TRUE] IN
  IF s.tp[p].inb = "none" /\ s.tp[p].ontrack
  THEN IF muted THEN [s1 EXCEPT !.tp[p].inb = "muted"]
       ELSE [s1 EXCEPT !.tp[p].inb = "live", !.rxSrc = p, !.rxMuted = FALSE]
  ELSE s1

\* event.track.onunmute
onunmute(s, p) ==
  [s EXCEPT !.tp[p].inb = "live", !.rxSrc = p, !.rxMuted = FALSE]

\* ------------------------------------------------------------------- PTT
flushRXAudioBuffers(s) ==
  IF s.rxSrc # 0
  THEN [s EXCEPT !.rxSrc = 0,
                 !.flushTimers = Append(@, [rem |-> Ms(FLUSH_DELAY_MS), stream |-> s.rxSrc])]
  ELSE s

togglePTT(s) ==
  LET s1 == [s EXCEPT !.wasListeningBeforePTT = s.webrtcConnected,
                      !.pttActive = ~s.pttActive]
  IN IF s1.pttActive
     THEN [emit(s1, "on") EXCEPT !.rxMuted = TRUE]
     ELSE LET s2 == flushRXAudioBuffers(emit(s1, "off"))
              s3 == [s2 EXCEPT !.rxMuted = FALSE]
              s4 == IF s3.wasListeningBeforePTT /\ ~s3.webrtcConnected
                    THEN startWebRTC(s3) ELSE s3
          IN [s4 EXCEPT !.wasListeningBeforePTT = FALSE]

deactivatePTT_NoEmit(s) == [s EXCEPT !.pttActive = FALSE]

deactivatePTT_NoGuard(s) == emit([s EXCEPT !.pttActive = FALSE], "off")

deactivatePTT(s) ==
  IF ~s.pttActive THEN s
  ELSE emit([s EXCEPT !.pttActive = FALSE], "off")

\* ------------------------------------------------------------------ tune
\* socket.emit('tune_control', { action: c })
emitTune(s, c) ==
  [s EXCEPT !.out = Append(@, c), !.tunePending = Append(@, c)]

tuneClick_NoTimer(s) ==
  IF ~s.tuneActive
  THEN emitTune([s EXCEPT !.tuneActive = TRUE], "tune_start")
  ELSE emitTune([s EXCEPT !.tuneActive = FALSE], "tune_stop")

\* the click handler of the tune button: a toggle; a start arms the 10 s
\* auto-reset timer, which nothing ever cancels
tuneClick(s) ==
  IF ~s.tuneActive
  THEN emitTune([s EXCEPT !.tuneActive = TRUE,
                          !.tuneTimers = Append(@, Ms(TUNE_TIMEOUT_MS))],
                "tune_start")
  ELSE emitTune([s EXCEPT !.tuneActive = FALSE], "tune_stop")

\* the callback of the auto-reset timer: the flag and the button only
tuneTimerFired(s) ==
  [s EXCEPT !.tuneTimers = Tail(@), !.tuneActive = FALSE]

\* socket.on('tune_response')
tuneResponse(s, success) ==
  IF ~success THEN [s EXCEPT !.tuneActive = FALSE] ELSE s

\* --------------------------------------------------------------- CW tone
\* the synchronous part of ensureCWToneInWebRTC: the state it leaves and
\* whether a renegotiation was started (the function then awaits createOffer)
ensureCWToneInWebRTC_AlwaysRenegotiate(s) ==
  IF s.pc = 0 \/ ~s.webrtcConnected THEN [s |-> s, pending |-> FALSE]
  ELSE LET a == [s EXCEPT !.tp[s.pc].toneAsks = IF @ < 2 THEN @ + 1 ELSE @] IN
       IF a.tp[a.pc].st = "closed" THEN [s |-> a, pending |-> FALSE]
       ELSE [s |-> add([a EXCEPT !.cwToneSender = a.pc,
                                 !.tp[a.pc].tone = TRUE,
                                 !.tp[a.pc].toneOffers = IF @ < 2 THEN @ + 1 ELSE @],
                       T("cw", "offer", 0)),
             pending |-> TRUE]

ensureCWToneInWebRTC(s) ==
  IF s.pc = 0 \/ ~s.webrtcConnected THEN [s |-> s, pending |-> FALSE]
  ELSE LET a == [s EXCEPT !.tp[s.pc].toneAsks = IF @ < 2 THEN @ + 1 ELSE @] IN
       IF a.cwToneSender # 0 /\ a.tp[a.cwToneSender].tone
       THEN [s |-> a, pending |-> FALSE]
       \* pc.addTrack throws on a closed connection and on a track that already
       \* has a sender there; the catch returns false
       ELSE IF a.tp[a.pc].st = "closed" \/ a.tp[a.pc].tone
       THEN [s |-> a, pending |-> FALSE]
       ELSE [s |-> add([a EXCEPT !.cwToneSender = a.pc,
                                 !.tp[a.pc].tone = TRUE,
                                 !.tp[a.pc].toneOffers = IF @ < 2 THEN @ + 1 ELSE @],
                       T("cw", "offer", 0)),
             pending |-> TRUE]

\* the end of startCWTone: the oscillator is created if need be and the gain ramped up
toneUp(s) == [s EXCEPT !.cwOscillator = TRUE, !.toneOn = TRUE]

\* startCWTone from `await ensureCWToneInWebRTC()` on
ensureThenTone(s) ==
  LET e == ensureCWToneInWebRTC(s) IN
  IF e.pending THEN e.s ELSE toneUp(e.s)

startCWToneReady_NoPttGuard(s) ==
  LET s1 == [s EXCEPT !.cwPTTHangTimer = NoTimer] IN
  [togglePTT(s1) EXCEPT !.settleTimers = Append(@, Ms(PTT_SETTLE_MS))]

\* startCWTone once the tone generator exists
startCWToneReady(s) ==
  LET s1 == [s EXCEPT !.cwPTTHangTimer = NoTimer] IN
  IF ~s1.pttActive
  THEN [togglePTT(s1) EXCEPT !.settleTimers = Append(@, Ms(PTT_SETTLE_MS))]
  ELSE ensureThenTone(s1)

startCWTone(s) ==
  IF ~s.audioRunning
  THEN [s EXCEPT !.tasks[T("cw", "init", 0)] = IF @ < MaxInit THEN @ + 1 ELSE @]
  ELSE startCWToneReady(s)

stopCWTone_ArmUnchecked(s) ==
  IF ~s.cwOscillator THEN s
  ELSE IF s.pttActive
  THEN [s EXCEPT !.toneOn = FALSE, !.cwPTTHangTimer = Ms(CW_PTT_HANG_MS)]
  ELSE [s EXCEPT !.toneOn = FALSE]

stopCWTone(s) ==
  IF ~s.cwOscillator THEN s
  ELSE LET s1 == [s EXCEPT !.toneOn = FALSE]
           shouldReleasePTT ==
             /\ s1.keyerState \in {"idle", "element_space"}
             /\ ~s1.leftCtrlPressed
             /\ ~s1.rightCtrlPressed
             /\ s1.pendingElement = "none"
       IN IF shouldReleasePTT /\ s1.pttActive
          THEN [s1 EXCEPT !.cwPTTHangTimer = Ms(CW_PTT_HANG_MS)]
          ELSE s1

\* ----------------------------------------------------------------- keyer
startKeyerElement_DahForDit(s, isDit) ==
  IF s.keyerState # "idle" THEN s
  ELSE LET s1 == [s EXCEPT !.keyerState = IF isDit THEN "sending_dit" ELSE "sending_dah",
                           !.cwPTTHangTimer = NoTimer,
                           !.lastElement = IF isDit THEN "dit" ELSE "dah"]
       IN [startCWTone(s1) EXCEPT
             !.keyerTimer = [kind |-> "element", rem |-> DAH_MS]]

\* startKeyerElement up to the scheduling of the element timer
startKeyerElement(s, isDit) ==
  IF s.keyerState # "idle" THEN s
  ELSE LET s1 == [s EXCEPT !.keyerState = IF isDit THEN "sending_dit" ELSE "sending_dah",
                           !.cwPTTHangTimer = NoTimer,
                           !.lastElement = IF isDit THEN "dit" ELSE "dah"]
       IN [startCWTone(s1) EXCEPT
             !.keyerTimer = [kind |-> "element",
                             rem |-> IF isDit THEN DIT_MS ELSE DAH_MS]]

elementTimerFired_NoSpaceTimer(s) ==
  [stopCWTone([s EXCEPT !.keyerTimer = NoKeyerTimer]) EXCEPT
     !.keyerState = "element_space"]

elementTimerFired_SkipSpace(s) ==
  [stopCWTone([s EXCEPT !.keyerTimer = NoKeyerTimer]) EXCEPT !.keyerState = "idle"]

\* the element timer's callback
elementTimerFired(s) ==
  LET s1 == stopCWTone([s EXCEPT !.keyerTimer = NoKeyerTimer]) IN
  [s1 EXCEPT !.keyerState = "element_space",
             !.keyerTimer = [kind |-> "space", rem |-> DIT_MS],
             !.nDit = IF s.keyerState = "sending_dit" /\ s.scen # "free" /\ @ < MaxCount
                      THEN @ + 1 ELSE @]

spaceTimerFired_RepeatsDit(s) ==
  startKeyerElement([s EXCEPT !.keyerTimer = NoKeyerTimer,
                              !.keyerState = "idle",
                              !.pendingElement = "none"], TRUE)

\* the inter-element timer's callback
spaceTimerFired(s) ==
  LET s1 == [s EXCEPT !.keyerTimer = NoKeyerTimer, !.keyerState = "idle"] IN
  IF s1.pendingElement # "none"
  THEN startKeyerElement([s1 EXCEPT !.pendingElement = "none"],
                         s1.pendingElement = "dit")
  ELSE IF s1.leftCtrlPressed THEN startKeyerElement(s1, TRUE)
  ELSE IF s1.rightCtrlPressed THEN startKeyerElement(s1, FALSE)
  ELSE stopCWTone(s1)

hangTimerFired_NoRecheck(s) ==
  [togglePTT(s) EXCEPT !.cwPTTHangTimer = NoTimer, !.runOns = 0]

\* the hang timer's callback
hangTimerFired(s) ==
  LET s1 == IF /\ ~s.leftCtrlPressed
               /\ ~s.rightCtrlPressed
               /\ s.pendingElement = "none"
               /\ s.pttActive
            THEN togglePTT(s) ELSE s
  IN [s1 EXCEPT !.cwPTTHangTimer = NoTimer, !.runOns = 0]

handleCWKeyDown_QueueWhileSqueezed(s, isLeftCtrl) ==
  IF (isLeftCtrl /\ s.leftCtrlPressed) \/ (~isLeftCtrl /\ s.rightCtrlPressed) THEN s
  ELSE LET s1 == [s EXCEPT !.leftCtrlPressed = IF isLeftCtrl THEN TRUE ELSE @,
                           !.rightCtrlPressed = IF isLeftCtrl THEN @ ELSE TRUE,
                           !.cwPTTHangTimer = NoTimer]
       IN IF s1.keyerState = "sending_dit" /\ s1.rightCtrlPressed
          THEN [s1 EXCEPT !.pendingElement = "dah"]
          ELSE IF s1.keyerState = "sending_dah" /\ s1.leftCtrlPressed
          THEN [s1 EXCEPT !.pendingElement = "dit"]
          ELSE IF s1.keyerState = "idle"
          THEN startKeyerElement(s1, isLeftCtrl)
          ELSE s1

handleCWKeyDown_QueueInSpace(s, isLeftCtrl) ==
  IF (isLeftCtrl /\ s.leftCtrlPressed) \/ (~isLeftCtrl /\ s.rightCtrlPressed) THEN s
  ELSE LET s1 == [s EXCEPT !.leftCtrlPressed = IF isLeftCtrl THEN TRUE ELSE @,
                           !.rightCtrlPressed = IF isLeftCtrl THEN @ ELSE TRUE,
                           !.cwPTTHangTimer = NoTimer]
       IN IF s1.keyerState = "idle" THEN startKeyerElement(s1, isLeftCtrl)
          ELSE [s1 EXCEPT !.pendingElement = IF isLeftCtrl THEN "dit" ELSE "dah"]

handleCWKeyDown(s, isLeftCtrl) ==
  IF (isLeftCtrl /\ s.leftCtrlPressed) \/ (~isLeftCtrl /\ s.rightCtrlPressed) THEN s
  ELSE LET s1 == [s EXCEPT !.leftCtrlPressed = IF isLeftCtrl THEN TRUE ELSE @,
                           !.rightCtrlPressed = IF isLeftCtrl THEN @ ELSE TRUE,
                           !.cwPTTHangTimer = NoTimer]
       IN IF s1.keyerState = "sending_dit" /\ s1.rightCtrlPressed /\ ~s1.leftCtrlPressed
          THEN [s1 EXCEPT !.pendingElement = "dah"]
          ELSE IF s1.keyerState = "sending_dah" /\ s1.leftCtrlPressed /\ ~s1.rightCtrlPressed
          THEN [s1 EXCEPT !.pendingElement = "dit"]
          ELSE IF s1.keyerState = "idle"
          THEN startKeyerElement(s1, isLeftCtrl)
          ELSE s1

handleCWKeyUp_EndsElement(s, isLeftCtrl) ==
  LET s1 == [s EXCEPT !.leftCtrlPressed = IF isLeftCtrl THEN FALSE ELSE @,
                      !.rightCtrlPressed = IF isLeftCtrl THEN @ ELSE FALSE]
  IN IF ~s1.leftCtrlPressed /\ ~s1.rightCtrlPressed
     THEN [s1 EXCEPT !.pendingElement = "none",
                     !.keyerState = "idle",
                     !.keyerTimer = NoKeyerTimer]
     ELSE s1

handleCWKeyUp(s, isLeftCtrl) ==
  LET s1 == [s EXCEPT !.leftCtrlPressed = IF isLeftCtrl THEN FALSE ELSE @,
                      !.rightCtrlPressed = IF isLeftCtrl THEN @ ELSE FALSE]
  IN IF ~s1.leftCtrlPressed /\ ~s1.rightCtrlPressed
     THEN [s1 EXCEPT !.pendingElement = "none"]
     ELSE s1

cleanupCWState_KeepHangTimer(s) ==
  [s EXCEPT !.keyerTimer = NoKeyerTimer,
            !.keyerState = "idle",
            !.pendingElement = "none",
            !.leftCtrlPressed = FALSE,
            !.rightCtrlPressed = FALSE,
            !.cwOscillator = FALSE,
            !.toneOn = FALSE]

\* both timers cleared, the keyer state reset, the oscillator stopped and
\* dropped; PTT, the settle waits and suspended startCWTone calls are left alone
cleanupCWState(s) ==
  [s EXCEPT !.keyerTimer = NoKeyerTimer,
            !.cwPTTHangTimer = NoTimer,
            !.keyerState = "idle",
            !.pendingElement = "none",
            !.leftCtrlPressed = FALSE,
            !.rightCtrlPressed = FALSE,
            !.cwOscillator = FALSE,
            !.toneOn = FALSE]

\* --------------------------------------------------- AudioContext resume
\* audioContext.resume() resolves for every waiter in one go: each
\* startWebRTC waiting on it goes on to create its connection, each
\* startCWTone waiting on initCWToneGenerator goes on to key PTT
RECURSIVE resumeStartWebRTC(_)
resumeStartWebRTC(s) ==
  IF s.tasks[T("sw", "resume", 0)] = 0 THEN s
  ELSE resumeStartWebRTC(createPc(del(s, T("sw", "resume", 0))))

RECURSIVE resumeStartCWTone(_)
resumeStartCWTone(s) ==
  IF s.tasks[T("cw", "init", 0)] = 0 THEN s
  ELSE resumeStartCWTone(startCWToneReady(del(s, T("cw", "init", 0))))

audioResumed(s) ==
  resumeStartCWTone(resumeStartWebRTC([s EXCEPT !.audioRunning = TRUE]))

\* ------------------------------------------------------------ microphone
\* connectMic after getUserMedia resolved, up to its next await or its end
micGranted(s) ==
  LET s1 == [s EXCEPT !.micStream = "live",
                      !.tp = [q \in Pcs |-> [@[q] EXCEPT !.mic = IF @ = "cur" THEN "old" ELSE @]]]
  IN IF s1.pc # 0 /\ s1.webrtcConnected
     THEN IF s1.tp[s1.pc].st = "closed"
          \* pc.addTrack throws; the catch reports the microphone as failed
          THEN [s1 EXCEPT !.micEnabled = FALSE]
          ELSE add([s1 EXCEPT !.tp[s1.pc].mic = "cur"], T("cm", "offer", 0))
     ELSE [s1 EXCEPT !.micEnabled = TRUE]

micCatch_TearDown(s) == stopWebRTC([s EXCEPT !.micEnabled = FALSE])

\* the catch block of connectMic
micCatch(s) == [s EXCEPT !.micEnabled = FALSE]

disconnectMic(s) ==
  IF ~s.micEnabled THEN s
  ELSE LET s1 == [s EXCEPT !.micStream = "none",
                           !.tp = [q \in Pcs |-> [@[q] EXCEPT !.mic = IF @ = "cur" THEN "old" ELSE @]]]
       IN IF s1.pc # 0 /\ s1.webrtcConnected
          THEN IF s1.tp[s1.pc].st = "closed"
               \* pc.removeTrack throws on a closed connection
               THEN IF s1.tp[s1.pc].mic # "none" \/ s1.tp[s1.pc].tone
                    THEN throw(s1)
                    ELSE [s1 EXCEPT !.micEnabled = FALSE]
               \* every sender that has an audio track is removed
               ELSE [s1 EXCEPT !.tp[s1.pc].mic = "none",
                               !.tp[s1.pc].tone = FALSE,
                               !.micEnabled = FALSE]
          ELSE [s1 EXCEPT !.micEnabled = FALSE]

\* ---------------------------------------------------------------- timers
Rems(s) ==
  (IF s.keyerTimer.kind # "none" THEN {s.keyerTimer.rem} ELSE {})
    \cup (IF s.cwPTTHangTimer # NoTimer THEN {s.cwPTTHangTimer} ELSE {})
    \cup (IF s.holdTimer # NoTimer THEN {s.holdTimer} ELSE {})
    \cup {s.settleTimers[i] : i \in DOMAIN s.settleTimers}
    \cup {s.flushTimers[i].rem : i \in DOMAIN s.flushTimers}
    \cup {s.tuneTimers[i] : i \in DOMAIN s.tuneTimers}

MinOf(X) == CHOOSE x \in X : \A y \in X : x <= y

elapse(s, d) ==
  [s EXCEPT !.keyerTimer.rem = IF s.keyerTimer.kind # "none" THEN @ - d ELSE @,
            !.cwPTTHangTimer = IF @ # NoTimer THEN @ - d ELSE @,
            !.holdTimer = IF @ # NoTimer THEN @ - d ELSE @,
            !.settleTimers = [i \in DOMAIN @ |-> @[i] - d],
            !.flushTimers = [i \in DOMAIN @ |-> [@[i] EXCEPT !.rem = @ - d]],
            !.tuneTimers = [i \in DOMAIN @ |-> @[i] - d]]

\* ------------------------------------------------------------------ Init
Init ==
  /\ pc = 0
  /\ nPc = 0
  /\ tp = [q \in Pcs |-> NewPc]
  /\ webrtcConnected = FALSE
  /\ rxMuted = FALSE
  /\ rxSrc = 0
  /\ micEnabled = FALSE
  /\ micStream = "none"
  /\ pttActive = FALSE
  /\ pttByButton = FALSE
  /\ wasListeningBeforePTT = FALSE
  \* initCWToneGenerator runs at DOMContentLoaded: the browser's autoplay
  \* policy decides whether the AudioContext starts running or suspended
  /\ audioRunning \in BOOLEAN
  /\ cwOscillator = FALSE
  /\ toneOn = FALSE
  /\ cwToneSender = 0
  /\ toneTrackLive = TRUE
  /\ leftCtrlPressed = FALSE
  /\ rightCtrlPressed = FALSE
  /\ keyerState = "idle"
  /\ pendingElement = "none"
  /\ keyerTimer = NoKeyerTimer
  /\ cwPTTHangTimer = NoTimer
  /\ tasks = [t \in TaskIds |-> 0]
  /\ settleTimers = << >>
  /\ flushTimers = << >>
  /\ tuneActive = FALSE
  /\ tuneTimers = << >>
  /\ pttPending = 0
  /\ tunePending = << >>
  /\ out = << >>
  /\ threw = FALSE
  /\ lastElement = "none"
  /\ scen = "free"
  /\ holdTimer = NoTimer
  /\ nOn = 0
  /\ nDit = 0
  /\ runOns = 0

\* ------------------------------------------------- actions: audio session
ConnectClick ==
  /\ ~webrtcConnected
  /\ Do(startWebRTC(S))

DisconnectClick ==
  /\ webrtcConnected
  /\ Do(stopWebRTC(S))

AudioResume ==
  /\ ~audioRunning
  /\ Do(audioResumed(S))

\* createOffer and setLocalDescription resolved; the offer is posted
SwOfferDone ==
  /\ Waiting(T("sw", "offer", 0))
  /\ LET s1 == del(S, T("sw", "offer", 0)) IN
     Do(IF s1.pc = 0 \/ s1.tp[s1.pc].st = "closed" THEN throw(s1)
        ELSE add([s1 EXCEPT !.tp[s1.pc].sig = "offer"], T("sw", "fetch", 0)))

\* the response is ok and its JSON read; setRemoteDescription is called on pc
\* (it rejects at once on a closed connection, and pc may be null by now)
SwFetchOk ==
  /\ Waiting(T("sw", "fetch", 0))
  /\ LET s1 == del(S, T("sw", "fetch", 0)) IN
     Do(IF s1.pc = 0 \/ s1.tp[s1.pc].st = "closed" THEN throw(s1)
        ELSE add(s1, T("sw", "remote", s1.pc)))

\* the response is not ok: startWebRTC calls stopWebRTC
SwFetchNotOk ==
  /\ Waiting(T("sw", "fetch", 0))
  /\ Do(stopWebRTC(del(S, T("sw", "fetch", 0))))

\* fetch rejects (network error): nothing catches it
SwFetchError ==
  /\ Waiting(T("sw", "fetch", 0))
  /\ Do(throw(del(S, T("sw", "fetch", 0))))

\* setRemoteDescription settles; on a closed connection it never does
SwRemoteDone(p, ok, muted) ==
  /\ Waiting(T("sw", "remote", p))
  /\ LET s1 == del(S, T("sw", "remote", p)) IN
     Do(IF s1.tp[p].st = "closed" THEN s1
        ELSE IF s1.tp[p].sig # "offer" \/ ~ok THEN throw(s1)
        ELSE [applyAnswer(s1, p, muted) EXCEPT !.webrtcConnected = TRUE])

\* the teardown request settled: the finally block of stopWebRTC
StopFinish(p) ==
  /\ Waiting(T("stop", "teardown", p))
  /\ Do([del(S, T("stop", "teardown", p)) EXCEPT !.pc = 0, !.webrtcConnected = FALSE])

TrackUnmute(p) ==
  /\ tp[p].inb \in {"muted", "quiet"}
  /\ ~tp[p].rcvStopped
  /\ Do(onunmute(S, p))

TrackMute(p) ==
  /\ tp[p].inb = "live"
  /\ ~tp[p].rcvStopped
  /\ Do([S EXCEPT !.tp[p].inb = "quiet"])

FlushFire ==
  /\ flushTimers # << >>
  /\ Head(flushTimers).rem = 0
  /\ Do([S EXCEPT !.rxSrc = Head(flushTimers).stream, !.flushTimers = Tail(@)])

\* -------------------------------------------------- actions: microphone
MicEnableClick ==
  /\ ~micEnabled
  /\ Do(add(S, T("cm", "gum", 0)))

CmGumOk ==
  /\ Waiting(T("cm", "gum", 0))
  /\ Do(micGranted(del(S, T("cm", "gum", 0))))

CmGumDenied ==
  /\ Waiting(T("cm", "gum", 0))
  /\ Do(micCatch(del(S, T("cm", "gum", 0))))

CmOfferDone ==
  /\ Waiting(T("cm", "offer", 0))
  /\ LET s1 == del(S, T("cm", "offer", 0)) IN
     Do(IF s1.pc = 0 \/ s1.tp[s1.pc].st = "closed" THEN micCatch(s1)
        ELSE add([s1 EXCEPT !.tp[s1.pc].sig = "offer"], T("cm", "fetch", 0)))

CmFetchOk ==
  /\ Waiting(T("cm", "fetch", 0))
  /\ LET s1 == del(S, T("cm", "fetch", 0)) IN
     Do(IF s1.pc = 0 \/ s1.tp[s1.pc].st = "closed" THEN micCatch(s1)
        ELSE add(s1, T("cm", "remote", s1.pc)))

CmFetchNotOk ==
  /\ Waiting(T("cm", "fetch", 0))
  /\ Do([del(S, T("cm", "fetch", 0)) EXCEPT !.micEnabled = TRUE])

CmFetchError ==
  /\ Waiting(T("cm", "fetch", 0))
  /\ Do(micCatch(del(S, T("cm", "fetch", 0))))

CmRemoteDone(p, ok, muted) ==
  /\ Waiting(T("cm", "remote", p))
  /\ LET s1 == del(S, T("cm", "remote", p)) IN
     Do(IF s1.tp[p].st = "closed" THEN s1
        ELSE IF s1.tp[p].sig # "offer" \/ ~ok THEN micCatch(s1)
        ELSE [applyAnswer(s1, p, muted) EXCEPT !.micEnabled = TRUE])

MicDisableClick ==
  /\ micEnabled
  /\ Do(disconnectMic(S))

\* --------------------------------------------------------- actions: PTT
PttClick ==
  /\ Bounded(togglePTT(S))
  /\ Set([togglePTT(S) EXCEPT !.pttByButton = TRUE])

PttResponse(success) ==
  /\ pttPending > 0
  /\ LET s1 == [S EXCEPT !.pttPending = @ - 1] IN
     Do(IF success THEN s1 ELSE deactivatePTT(s1))

\* -------------------------------------------------------- actions: tune
TuneClick ==
  /\ Len(tunePending) < MaxAcks
  /\ Bounded(tuneClick(S))
  /\ Set(tuneClick(S))

TuneTimerFire ==
  /\ tuneTimers # << >>
  /\ Head(tuneTimers) = 0
  /\ Do(tuneTimerFired(S))

TuneResponse(success) ==
  /\ tunePending # << >>
  /\ Do(tuneResponse([S EXCEPT !.tunePending = Tail(@)], success))

\* ------------------------------------------------------- actions: keyer
KeyDown(isLeftCtrl) ==
  /\ scen = "free"
  /\ Do(handleCWKeyDown(S, isLeftCtrl))

KeyUp(isLeftCtrl) ==
  /\ scen = "free"
  /\ IF isLeftCtrl THEN leftCtrlPressed ELSE rightCtrlPressed
  /\ Do(handleCWKeyUp(S, isLeftCtrl))

KeyerElementFire ==
  /\ keyerTimer.kind = "element"
  /\ keyerTimer.rem = 0
  /\ Do(elementTimerFired(S))

KeyerSpaceFire ==
  /\ keyerTimer.kind = "space"
  /\ keyerTimer.rem = 0
  /\ Do(spaceTimerFired(S))

HangFire ==
  /\ cwPTTHangTimer = 0
  /\ Do(hangTimerFired(S))

SettleFire ==
  /\ settleTimers # << >>
  /\ Head(settleTimers) = 0
  /\ Do(ensureThenTone([S EXCEPT !.settleTimers = Tail(@)]))

\* ensureCWToneInWebRTC: createOffer and setLocalDescription resolved
CwOfferDone ==
  /\ Waiting(T("cw", "offer", 0))
  /\ LET s1 == del(S, T("cw", "offer", 0)) IN
     Do(IF s1.pc = 0 \/ s1.tp[s1.pc].st = "closed" THEN toneUp(s1)
        ELSE add([s1 EXCEPT !.tp[s1.pc].sig = "offer"], T("cw", "fetch", 0)))

CwFetchOk ==
  /\ Waiting(T("cw", "fetch", 0))
  /\ LET s1 == del(S, T("cw", "fetch", 0)) IN
     Do(IF s1.pc = 0 \/ s1.tp[s1.pc].st = "closed" THEN toneUp(s1)
        ELSE add(s1, T("cw", "remote", s1.pc)))

\* not ok, or fetch rejected: ensureCWToneInWebRTC returns false either way
CwFetchFailed ==
  /\ Waiting(T("cw", "fetch", 0))
  /\ Do(toneUp(del(S, T("cw", "fetch", 0))))

CwRemoteDone(p, ok, muted) ==
  /\ Waiting(T("cw", "remote", p))
  /\ LET s1 == del(S, T("cw", "remote", p)) IN
     Do(IF s1.tp[p].st = "closed" THEN s1
        ELSE IF s1.tp[p].sig # "offer" \/ ~ok THEN toneUp(s1)
        ELSE toneUp(applyAnswer(s1, p, muted)))

\* the keyer is stopped during free paddle play; no paddle event follows
StopKeyer ==
  /\ scen = "free"
  /\ Do([cleanupCWState(S) EXCEPT !.scen = "stopped"])

\* ------------------------------------------------------------------ time
Advance ==
  /\ Rems(S) # {}
  /\ \A r \in Rems(S) : r > 0
  /\ Do(elapse(S, MinOf(Rems(S))))

\* a second goes by in which no timer comes due
Wait ==
  /\ Rems(S) # {}
  /\ Ms(1000) < MinOf(Rems(S))
  /\ Do(elapse(S, Ms(1000)))

\* ------------------------------------------- scripted paddle scenarios
\* the keyer has not been used yet
Pristine ==
  /\ scen = "free"
  /\ keyerState = "idle"
  /\ lastElement = "none"
  /\ ~leftCtrlPressed
  /\ ~rightCtrlPressed
  /\ ~pttActive
  /\ pttPending = 0

\* one tap: left paddle down from idle, up during the first element, nothing after
TapDown ==
  /\ Pristine
  /\ Do(handleCWKeyDown([S EXCEPT !.scen = "tap"], TRUE))

TapUp ==
  /\ scen = "tap"
  /\ keyerState = "sending_dit"
  /\ Do([handleCWKeyUp(S, TRUE) EXCEPT !.scen = "tapUp"])

\* left paddle held for 500 ms from idle, nothing after
HoldDown ==
  /\ Pristine
  /\ Do(handleCWKeyDown([S EXCEPT !.scen = "hold", !.holdTimer = Ms(500)], TRUE))

HoldUp ==
  /\ scen = "hold"
  /\ holdTimer = 0
  /\ Do([handleCWKeyUp(S, TRUE) EXCEPT !.scen = "holdUp", !.holdTimer = NoTimer])

\* ---------------------------------------------------------- specifications
Session ==
  \/ ConnectClick
  \/ DisconnectClick
  \/ AudioResume
  \/ SwOfferDone
  \/ SwFetchOk
  \/ SwFetchNotOk
  \/ SwFetchError
  \/ \E p \in Pcs, ok \in BOOLEAN, muted \in BOOLEAN : SwRemoteDone(p, ok, muted)
  \/ \E p \in 0..MaxPc : StopFinish(p)
  \/ \E p \in Pcs : TrackUnmute(p)
  \/ \E p \in Pcs : TrackMute(p)
  \/ FlushFire

Mic ==
  \/ MicEnableClick
  \/ CmGumOk
  \/ CmGumDenied
  \/ CmOfferDone
  \/ CmFetchOk
  \/ CmFetchNotOk
  \/ CmFetchError
  \/ \E p \in Pcs, ok \in BOOLEAN, muted \in BOOLEAN : CmRemoteDone(p, ok, muted)
  \/ MicDisableClick

Keyer ==
  \/ KeyerElementFire
  \/ KeyerSpaceFire
  \/ HangFire
  \/ SettleFire
  \/ FlushFire
  \/ CwOfferDone
  \/ CwFetchOk
  \/ CwFetchFailed
  \/ \E p \in Pcs, ok \in BOOLEAN, muted \in BOOLEAN : CwRemoteDone(p, ok, muted)

Paddles ==
  \/ \E isLeftCtrl \in BOOLEAN : KeyDown(isLeftCtrl)
  \/ \E isLeftCtrl \in BOOLEAN : KeyUp(isLeftCtrl)

ManualPtt ==
  \/ PttClick
  \/ \E success \in BOOLEAN : PttResponse(success)

Scripts ==
  \/ TapDown
  \/ TapUp
  \/ HoldDown
  \/ HoldUp

\* the audio session and the manual PTT button
Next == Session \/ ManualPtt \/ Advance

Spec == Init /\ [][Next]_vars

\* the operator connects audio once and does not disconnect
ConnectOnce ==
  /\ nPc = 0
  /\ ~Waiting(T("sw", "resume", 0))
  /\ ConnectClick

\* the keyer and the audio session it keys into: the paddles, the keyer's
\* timers and tone starts, one connect that succeeds or fails at the answer;
\* no manual PTT click and no controller rejection
NextKeyer ==
  \/ Keyer
  \/ Paddles
  \/ Scripts
  \/ Advance
  \/ AudioResume
  \/ ConnectOnce
  \/ SwOfferDone
  \/ SwFetchOk
  \/ \E p \in Pcs, ok \in BOOLEAN, muted \in BOOLEAN : SwRemoteDone(p, ok, muted)

SpecKeyer == Init /\ [][NextKeyer]_vars

\* the connect path of startWebRTC after the click
ConnectPath ==
  \/ SwOfferDone
  \/ SwFetchOk
  \/ \E p \in Pcs, ok \in BOOLEAN, muted \in BOOLEAN : SwRemoteDone(p, ok, muted)

\* the microphone buttons, with one connect of the audio session
NextMic == Mic \/ ConnectOnce \/ ConnectPath

SpecMic == Init /\ [][NextMic]_vars

\* the operator enables the microphone once
MicEnableOnce ==
  /\ micStream = "none"
  /\ ~Waiting(T("cm", "gum", 0))
  /\ MicEnableClick

\* the two track additions to a connected session: the microphone, enabled
\* once, and the tone track of a single tap of the left paddle
NextTracks ==
  \/ MicEnableOnce
  \/ CmGumOk
  \/ CmGumDenied
  \/ CmOfferDone
  \/ CmFetchOk
  \/ CmFetchNotOk
  \/ CmFetchError
  \/ \E p \in Pcs, ok \in BOOLEAN, muted \in BOOLEAN : CmRemoteDone(p, ok, muted)
  \/ Keyer
  \/ TapDown
  \/ TapUp
  \/ Advance
  \/ AudioResume
  \/ ConnectOnce
  \/ ConnectPath

SpecTracks == Init /\ [][NextTracks]_vars

\* every source of transmit commands: the PTT button, the controller's
\* responses, the keyer and its hang timer; no audio session, so no tone track
\* renegotiation
KeyerTimers ==
  \/ KeyerElementFire
  \/ KeyerSpaceFire
  \/ HangFire
  \/ SettleFire

NextPtt == KeyerTimers \/ Paddles \/ Scripts \/ ManualPtt \/ Advance \/ AudioResume

SpecPtt == Init /\ [][NextPtt]_vars

\* the keyer is at rest: idle, no timer of its own pending, no tone start suspended
KeyerQuiet ==
  /\ keyerState = "idle"
  /\ keyerTimer.kind = "none"
  /\ cwPTTHangTimer = NoTimer
  /\ settleTimers = << >>
  /\ flushTimers = << >>
  /\ \A t \in TaskIds : t.fn = "cw" /\ t.at # "init" => ~Waiting(t)

\* no startWebRTC or stopWebRTC is suspended
SessionStable == \A t \in TaskIds : t.fn \in {"sw", "stop"} => ~Waiting(t)

QuietConnect == KeyerQuiet /\ ConnectClick

QuietDisconnect == KeyerQuiet /\ DisconnectClick

StableKeyDown(isLeftCtrl) == SessionStable /\ KeyDown(isLeftCtrl)

\* keying across sessions: the operator connects and disconnects while the
\* keyer is at rest and presses a paddle while no connect or disconnect is
\* under way
NextRekey ==
  \/ Keyer
  \/ \E isLeftCtrl \in BOOLEAN : StableKeyDown(isLeftCtrl)
  \/ \E isLeftCtrl \in BOOLEAN : KeyUp(isLeftCtrl)
  \/ Advance
  \/ AudioResume
  \/ QuietConnect
  \/ ConnectPath
  \/ QuietDisconnect
  \/ \E p \in 0..MaxPc : StopFinish(p)

SpecRekey == Init /\ [][NextRekey]_vars

\* the keyer, stopped at any moment
NextStop == NextKeyer \/ StopKeyer

SpecStop == Init /\ [][NextStop]_vars

\* timers fire when due and time does not stand still: weak fairness of the
\* timer actions, with each enabling condition written out
KeyerFairness ==
  /\ []<>(~(Rems(S) # {} /\ \A r \in Rems(S) : r > 0)) \/ []<><<Advance>>_vars
  /\ []<>(~(keyerTimer.kind = "element" /\ keyerTimer.rem = 0))
       \/ []<><<KeyerElementFire>>_vars
  /\ []<>(~(keyerTimer.kind = "space" /\ keyerTimer.rem = 0))
       \/ []<><<KeyerSpaceFire>>_vars
  /\ []<>(cwPTTHangTimer # 0) \/ []<><<HangFire>>_vars
  /\ []<>(~(settleTimers # << >> /\ Head(settleTimers) = 0))
       \/ []<><<SettleFire>>_vars
  /\ []<>(~(flushTimers # << >> /\ Head(flushTimers).rem = 0))
       \/ []<><<FlushFire>>_vars
  /\ []<>(~(scen = "hold" /\ holdTimer = 0)) \/ []<><<HoldUp>>_vars

\* the microphone buttons with connects and disconnects of the audio session
NextMicSession ==
  \/ Mic
  \/ ConnectClick
  \/ DisconnectClick
  \/ AudioResume
  \/ ConnectPath
  \/ \E p \in 0..MaxPc : StopFinish(p)

SpecMicSession == Init /\ [][NextMicSession]_vars

\* the two track additions to a connected session, and the microphone's removal
NextMicTone == NextTracks \/ MicDisableClick

SpecMicTone == Init /\ [][NextMicTone]_vars

Tune ==
  \/ TuneClick
  \/ TuneTimerFire
  \/ \E success \in BOOLEAN : TuneResponse(success)

\* the tune button and its answers, with time passing by the second
NextTune == Tune \/ Wait \/ Advance

SpecTune == Init /\ [][NextTune]_vars

\* ------------------------------------------------------------ properties
\* offers posted to /api/webrtc/offer whose answer is neither applied nor failed
OffersOutstanding ==
  SumOver(tasks, {T(f, "fetch", 0) : f \in {"sw", "cm", "cw"}}
                   \cup {T(f, "remote", q) : f \in {"sw", "cm", "cw"}, q \in Pcs})

\* a startWebRTC has posted its offer and its answer is not applied yet
SwNegotiating ==
  \/ Waiting(T("sw", "fetch", 0))
  \/ \E q \in Pcs : Waiting(T("sw", "remote", q))

\* this step runs startWebRTC past its guard
ConnectStarted ==
  \/ nPc' > nPc
  \/ tasks'[T("sw", "resume", 0)] > tasks[T("sw", "resume", 0)]

\* the session is closed: no transport, not connected, playout element unbound
SessionClosed == pc = 0 /\ ~webrtcConnected /\ rxSrc = 0

\* no timer is pending and no async function is suspended
Settled == Rems(S) = {} /\ InFlight(S) = 0

\* C1 (Scenario B): a connect click that arrives while an earlier startWebRTC
\* has its offer posted and its answer not yet applied creates no second
\* transport and starts no second negotiation.
C1_ConnectWhileNegotiatingIsNoOp ==
  [][(SwNegotiating /\ ConnectClick) => (nPc' = nPc /\ tasks' = tasks)]_vars

\* C2: at most one offer/answer exchange is outstanding at any time.
C2_OneOfferOutstanding == OffersOutstanding <= 1

\* C3 (Scenario C): when a PTT that was engaged while the session was
\* connected is released by the PTT button, startWebRTC is invoked if and
\* only if the session is not connected at that moment.
C3_ReconnectOnReleaseIffDropped ==
  [][(pttActive /\ wasListeningBeforePTT /\ PttClick)
       => (ConnectStarted <=> ~webrtcConnected)]_vars

\* C4 (half-duplex): whenever PTT is active the receive playout element is muted.
C4_PlayoutMutedWhileTransmitting == pttActive => rxMuted

\* C5: with no manual PTT click and no controller rejection, the keyer emits
\* at most one transmit-on command per sending run (from the first element to
\* the hang timer), also when several startCWTone calls overlap.
C5_OneTransmitOnPerRun == runOns <= 1

\* C5 witness: a run whose transmit-on was emitted by one startCWTone, still
\* in its settle wait, while another startCWTone of the same run has already
\* raised the tone.
C5_OverlappingToneStarts ==
  /\ runOns = 1
  /\ pttActive
  /\ settleTimers # << >>
  /\ toneOn

\* C6 (iambic): while both paddles are held, each element the keyer starts
\* after an inter-element space differs from the element before it.
C6_SqueezeAlternates ==
  [][(/\ leftCtrlPressed /\ rightCtrlPressed
      /\ leftCtrlPressed' /\ rightCtrlPressed'
      /\ keyerTimer.kind = "space"
      /\ keyerTimer'.kind = "element")
       => lastElement' # lastElement]_vars

\* C7 (hang timer): after a single tap of the left paddle, once every timer
\* has run out and every tone start has finished, PTT has been released
\* (the release comes from the hang timer armed when the keyer went idle).
C7_TapEndsReleased ==
  (scen = "tapUp" /\ Settled) => ~pttActive

C10_StopOnClosedSessionIsNoOp ==
  [][(SessionClosed /\ (SwFetchNotOk \/ \E q \in 0..MaxPc : StopFinish(q)))
       => (/\ SessionClosed'
           /\ ~threw'
           /\ tp' = tp
           /\ micStream' = micStream
           /\ toneTrackLive' = toneTrackLive)]_vars

\* C10 witness: stopWebRTC was called with pc already null, after an earlier
\* stopWebRTC had closed the session, and awaits its teardown request.
C10_SecondStopInFlight ==
  /\ Waiting(T("stop", "teardown", 0))
  /\ nPc > 0
  /\ SessionClosed

\* a step in which a startWebRTC fails: the offer request rejects, the
\* response is not ok, or setRemoteDescription rejects
ConnectFails ==
  \/ SwFetchError
  \/ SwFetchNotOk
  \/ \E p \in Pcs, muted \in BOOLEAN : SwRemoteDone(p, FALSE, muted)

\* a step in which the microphone renegotiation of connectMic fails
MicRenegotiationFails ==
  \/ CmFetchNotOk
  \/ CmFetchError
  \/ \E p \in Pcs, muted \in BOOLEAN : CmRemoteDone(p, FALSE, muted)

\* a step in which the tone-track renegotiation of ensureCWToneInWebRTC fails
ToneRenegotiationFails ==
  \/ CwFetchFailed
  \/ \E p \in Pcs, muted \in BOOLEAN : CwRemoteDone(p, FALSE, muted)

\* the session is connected on an open transport
ConnectedOpen == webrtcConnected /\ pc # 0 /\ tp[pc].st = "open"

\* C11: a failed connect leaves the transport it was negotiating closed and
\* the session not connected.
C11_FailedConnectTornDown ==
  [][(pc # 0 /\ ConnectFails) => (tp'[pc].st = "closed" /\ ~webrtcConnected')]_vars

\* C12: a failed renegotiation, of the microphone or of the tone track,
\* leaves a connected session as it was: same transport, still open, still
\* connected, the inbound track and the playout binding untouched.
C12_RenegotiationFailureKeepsSession ==
  [][(ConnectedOpen /\ (MicRenegotiationFails \/ ToneRenegotiationFails))
       => (/\ pc' = pc
           /\ webrtcConnected'
           /\ rxSrc' = rxSrc
           /\ \A q \in Pcs : /\ tp'[q].st = tp[q].st
                              /\ tp'[q].inb = tp[q].inb
                              /\ tp'[q].rcvStopped = tp[q].rcvStopped
                              /\ tp'[q].ontrack = tp[q].ontrack)]_vars

\* C12 witness: the microphone renegotiation has failed (the track is on the
\* transport, the microphone is reported off, connectMic has ended) and the
\* session is still connected with its inbound track.
C12_FailedRenegotiationSessionUp ==
  /\ ConnectedOpen
  /\ tp[pc].inb # "none"
  /\ ~tp[pc].rcvStopped
  /\ tp[pc].mic = "cur"
  /\ ~micEnabled
  /\ \A t \in TaskIds : t.fn = "cm" => ~Waiting(t)

\* C13: a failed renegotiation restores the outbound state: after a failed
\* microphone renegotiation the track is off the transport and the microphone
\* is not reported enabled; after a failed tone renegotiation the tone track
\* is off the transport and no tone sender is recorded.
C13_RenegotiationFailureRestoresTracks ==
  [][/\ (ConnectedOpen /\ MicRenegotiationFails)
          => (tp'[pc].mic = "none" /\ ~micEnabled')
     /\ (ConnectedOpen /\ ToneRenegotiationFails)
          => (~tp'[pc].tone /\ cwToneSender' = 0)]_vars

\* C14: a ptt_response with success = false releases an active PTT with
\* exactly one transmit-off command, and does and emits nothing when PTT is
\* not active.
C14_RejectionReleasesPtt ==
  [][PttResponse(FALSE)
       => IF pttActive
          THEN ~pttActive' /\ out' = << "off" >>
          ELSE /\ ~pttActive'
               /\ out' = << >>
               /\ rxMuted' = rxMuted
               /\ rxSrc' = rxSrc
               /\ flushTimers' = flushTimers
               /\ wasListeningBeforePTT' = wasListeningBeforePTT
               /\ << pc, nPc, tp, webrtcConnected, tasks >>'
                     = << pc, nPc, tp, webrtcConnected, tasks >>]_vars

\* C14 witness: a rejection has just released an active PTT (deactivatePTT is
\* the only release that leaves the playout element as it was).
C14_ReleasedByRejection ==
  /\ ~pttActive
  /\ out = << "off" >>
  /\ rxMuted

\* C15: the playout element is muted only while PTT is active.
C15_MutedOnlyWhileTransmitting == rxMuted => pttActive

\* C16: the transmit commands alternate on, off, on, ... starting with on.
\* pttActive is false at first and tells which command came last: the
\* commands of a step alternate, begin with on exactly if PTT was not active,
\* and PTT is active afterwards exactly if the last of them is on.
C16_CommandsAlternate ==
  [][/\ \A i \in DOMAIN out' :
          out'[i] = IF (i % 2 = 1) = ~pttActive THEN "on" ELSE "off"
     /\ pttActive' = IF Len(out') % 2 = 0 THEN pttActive ELSE ~pttActive]_vars

\* C16 witness: a transmit-on has just been emitted, the second of this keyer
\* run, while the settle wait of a keyer-driven engagement is pending: the
\* keyer engaged PTT and the button or a rejection released it in between.
C16_KeyerAndButtonInterleave ==
  /\ out = << "on" >>
  /\ runOns = 2
  /\ lastElement # "none"
  /\ settleTimers # << >>

\* C17: once a keyed element has asked for the tone track on the current,
\* connected transport, the tone track is attached to that transport, also
\* when it had been attached to the transport of an earlier session.
C17_ToneTrackOnCurrentTransport ==
  \A q \in Pcs :
    (pc = q /\ ConnectedOpen /\ tp[q].toneAsks > 0) => tp[q].tone

\* C18: disconnectMic on a connected session that carries a sender starts a
\* renegotiation (an async exchange is under way after the click).
C18_MicRemovalRenegotiates ==
  [][(ConnectedOpen /\ tp[pc].mic # "none" /\ MicDisableClick)
       => SumOver(tasks', TaskIds) > SumOver(tasks, TaskIds)]_vars

\* C19: while the session is reported connected and no stopWebRTC is under
\* way, the current transport has its answer applied and a live inbound
\* audio track.
C19_ConnectedHasReceiveTrack ==
  (webrtcConnected /\ \A q \in 0..MaxPc : ~Waiting(T("stop", "teardown", q)))
    => (/\ pc # 0
        /\ tp[pc].remote
        /\ tp[pc].inb # "none"
        /\ ~tp[pc].rcvStopped)

\* C20: every transport that is open is the one pc refers to, so at most
\* one transport is live and none is lost unclosed.
C20_OneLiveTransport ==
  \A q \in Pcs : tp[q].st = "open" => pc = q

\* C21: play() is issued where the playout element is bound to a stream (in
\* ontrack, in onunmute and in the flush timer), so: the stream the element
\* is bound to, and every stream a flush timer is about to re-bind and play,
\* has an inbound track that has signalled it is active.
C21_PlayOnlyAfterUnmute ==
  /\ rxSrc # 0 => tp[rxSrc].inb \in {"live", "quiet"}
  /\ \A i \in DOMAIN flushTimers :
        tp[flushTimers[i].stream].inb \in {"live", "quiet"}

\* C21 witness: the inbound track has arrived muted on the connected
\* transport and has not unmuted yet; the playout element is unbound.
C21_ArrivedMutedNotPlayed ==
  /\ ConnectedOpen
  /\ tp[pc].inb = "muted"
  /\ rxSrc = 0

\* C22: when getUserMedia rejects, the microphone is left disabled: the
\* mic-enabled flag is false, no microphone stream is held, no track is added
\* to a transport, no renegotiation is started and the session is unchanged.
C22_DenialLeavesMicOff ==
  [][CmGumDenied =>
       /\ ~micEnabled'
       /\ micStream' = "none"
       /\ tp' = tp
       /\ pc' = pc
       /\ webrtcConnected' = webrtcConnected
       /\ \A id \in TaskIds : tasks'[id] <= tasks[id]]_vars

C24_CleanupStopsKeyer ==
  scen = "stopped" =>
    /\ keyerTimer = NoKeyerTimer
    /\ cwPTTHangTimer = NoTimer
    /\ keyerState = "idle"
    /\ pendingElement = "none"
    /\ ~leftCtrlPressed
    /\ ~rightCtrlPressed

\* the keyer was stopped in mid-transmission, and the startCWTone call that
\* was waiting at that moment has since raised the tone
C24_StoppedWhileKeying ==
  /\ scen = "stopped"
  /\ pttActive
  /\ toneOn

\* C25: the keyer phase is other than idle exactly when one element or
\* inter-element timer is outstanding: an element timer while sending, an
\* inter-element timer during the space, none at idle. A timer is armed only
\* when none is outstanding or by the callback of the one that just fired, so
\* the one handle in keyerTimer is the only timer there is.
C25_PhaseMatchesKeyerTimer ==
  /\ [](/\ keyerState \in {"sending_dit", "sending_dah"} => keyerTimer.kind = "element"
        /\ keyerState = "element_space" => keyerTimer.kind = "space"
        /\ keyerState = "idle" => keyerTimer = NoKeyerTimer
        /\ keyerTimer.kind # "none" => keyerTimer.rem >= 0)
  /\ [][(/\ keyerTimer'.kind # "none"
          /\ \/ keyerTimer'.kind # keyerTimer.kind
             \/ keyerTimer'.rem > keyerTimer.rem)
         => (keyerTimer.kind = "none" \/ keyerTimer.rem = 0)]_vars

\* the inter-element timer is the one outstanding, half way through the space
C25_SpaceTimerOutstanding ==
  /\ keyerState = "element_space"
  /\ keyerTimer.kind = "space"
  /\ keyerTimer.rem > 0
  /\ keyerTimer.rem < DIT_MS

\* C26 as stated: a queued element exists only while an element is being
\* sent; pendingElement is null at idle and during the inter-element space.
C26_PendingOnlyWhileSending ==
  pendingElement # "none" => keyerState \in {"sending_dit", "sending_dah"}

\* C26 as the code has it: an element is queued only while one is being sent
\* and is kept through the inter-element space, whose timer starts it;
\* pendingElement is null whenever the keyer is idle.
C26_PendingUntilSpaceEnds ==
  /\ [](pendingElement # "none" =>
          keyerState \in {"sending_dit", "sending_dah", "element_space"})
  /\ [][pendingElement' # "none" /\ pendingElement' # pendingElement =>
          keyerState \in {"sending_dit", "sending_dah"}]_vars

\* a queued element waits for the end of the inter-element space
C26_PendingDuringSpace ==
  /\ keyerState = "element_space"
  /\ pendingElement # "none"

Sending == {"sending_dit", "sending_dah"}

\* C27: a pending hang timer implies the keyer is idle with both paddles up
\* and nothing queued; a step that presses a paddle or starts an element
\* leaves no hang timer pending.
C27_HangTimerOnlyAtTrueIdle ==
  /\ [](cwPTTHangTimer # NoTimer =>
          /\ keyerState = "idle"
          /\ ~leftCtrlPressed
          /\ ~rightCtrlPressed
          /\ pendingElement = "none")
  /\ [][(\/ (leftCtrlPressed' /\ ~leftCtrlPressed)
          \/ (rightCtrlPressed' /\ ~rightCtrlPressed)
          \/ (keyerState' \in Sending /\ keyerState \notin Sending))
         => cwPTTHangTimer' = NoTimer]_vars

\* the hang timer is running, part of its 300 ms gone
C27_HangTimerRunning ==
  /\ cwPTTHangTimer > 0
  /\ cwPTTHangTimer < Ms(CW_PTT_HANG_MS)
  /\ pttActive

\* C28: the hang timer's callback releases PTT only when the keyer is idle,
\* both paddles are up, nothing is queued and PTT is active; in every other
\* state it emits no command and leaves PTT as it is.
C28_HangTimerRevalidates ==
  [][HangFire =>
       IF /\ keyerState = "idle"
          /\ ~leftCtrlPressed
          /\ ~rightCtrlPressed
          /\ pendingElement = "none"
          /\ pttActive
       THEN out' = << "off" >> /\ ~pttActive'
       ELSE out' = << >> /\ pttActive' = pttActive]_vars

\* the hang timer comes due after the operator released PTT with the button
C28_DueWhilePttInactive ==
  /\ cwPTTHangTimer = 0
  /\ ~pttActive

\* C29: the inter-element timer's callback consumes a queued element and
\* starts it, else repeats the held paddle's element (dit first), else stays
\* idle and, if PTT is active, arms the hang timer.
C29_SpaceTimerCallback ==
  [][KeyerSpaceFire =>
       IF pendingElement # "none"
       THEN /\ pendingElement' = "none"
            /\ keyerState' = IF pendingElement = "dit" THEN "sending_dit" ELSE "sending_dah"
       ELSE IF leftCtrlPressed THEN keyerState' = "sending_dit"
       ELSE IF rightCtrlPressed THEN keyerState' = "sending_dah"
       ELSE /\ keyerState' = "idle"
            /\ keyerTimer' = NoKeyerTimer
            /\ pttActive => cwPTTHangTimer' = Ms(CW_PTT_HANG_MS)]_vars

\* C30: a sending phase is left only for element_space, by the element timer,
\* which leaves the tone off; element_space is left only by the inter-element
\* timer, for idle or for the next element; an element starts only from idle
\* or from that callback; a paddle event during element_space changes neither
\* the phase nor the timer.
C30_SpaceAfterEveryElement ==
  /\ [][(keyerState \in Sending /\ keyerState' # keyerState) =>
          (KeyerElementFire /\ keyerState' = "element_space")]_vars
  /\ [][KeyerElementFire =>
          /\ keyerState \in Sending
          /\ keyerState' = "element_space"
          /\ ~toneOn'
          /\ keyerTimer' = [kind |-> "space", rem |-> DIT_MS]]_vars
  /\ [][(keyerState = "element_space" /\ keyerState' # keyerState) =>
          (KeyerSpaceFire /\ keyerTimer.rem = 0)]_vars
  /\ [][(/\ keyerState = "element_space"
          /\ (leftCtrlPressed' # leftCtrlPressed \/ rightCtrlPressed' # rightCtrlPressed))
         => (keyerState' = "element_space" /\ keyerTimer' = keyerTimer)]_vars

\* the right paddle went down during the space after a dit and the keyer is
\* still in that space
C30_PaddleDownDuringSpace ==
  /\ keyerState = "element_space"
  /\ lastElement = "dit"
  /\ rightCtrlPressed
  /\ ~leftCtrlPressed
  /\ pendingElement = "none"
  /\ keyerTimer.rem > 0

\* C31: a paddle-up event clears that paddle's flag and no other, clears the
\* queued element only if both paddles are then up, and leaves the keyer
\* phase, the element timer, the hang timer and PTT as they were.
C31_KeyUpFrame ==
  [][\A isLeftCtrl \in BOOLEAN :
       KeyUp(isLeftCtrl) =>
         /\ leftCtrlPressed' = (leftCtrlPressed /\ ~isLeftCtrl)
         /\ rightCtrlPressed' = (rightCtrlPressed /\ isLeftCtrl)
         /\ pendingElement' = IF ~leftCtrlPressed' /\ ~rightCtrlPressed'
                               THEN "none" ELSE pendingElement
         /\ keyerState' = keyerState
         /\ keyerTimer' = keyerTimer
         /\ cwPTTHangTimer' = cwPTTHangTimer
         /\ pttActive' = pttActive
         /\ out' = << >>]_vars

\* both paddles were released during an element, whose timer is still running
C31_ReleasedMidElement ==
  /\ scen = "free"
  /\ keyerState \in Sending
  /\ ~leftCtrlPressed
  /\ ~rightCtrlPressed
  /\ keyerTimer.kind = "element"
  /\ keyerTimer.rem > 0

\* C32: during an element, pressing the opposite paddle queues the opposite
\* element if the element's own paddle is up and records nothing if it is
\* still down; the phase and the element timer are unchanged either way.
C32_OppositePaddleQueues ==
  [][\A isLeftCtrl \in BOOLEAN :
       (/\ KeyDown(isLeftCtrl)
        /\ keyerState = (IF isLeftCtrl THEN "sending_dah" ELSE "sending_dit")
        /\ ~(IF isLeftCtrl THEN leftCtrlPressed ELSE rightCtrlPressed))
       => /\ keyerState' = keyerState
          /\ keyerTimer' = keyerTimer
          /\ pendingElement' =
                IF (IF isLeftCtrl THEN rightCtrlPressed ELSE leftCtrlPressed)
                THEN pendingElement
                ELSE (IF isLeftCtrl THEN "dit" ELSE "dah")]_vars

\* a dah is queued behind a dit in progress, the left paddle being up
C32_DahQueuedDuringDit ==
  /\ keyerState = "sending_dit"
  /\ ~leftCtrlPressed
  /\ rightCtrlPressed
  /\ pendingElement = "dah"
  /\ keyerTimer.rem > 0

\* C33: once the keyer has sent an element, both paddles are up and every
\* timer and every suspended tone start has run its course, PTT is released:
\* the hang timer was armed at the final idle and its release was not lost.
C33_KeyingEndsInReceive ==
  (/\ lastElement # "none"
   /\ ~leftCtrlPressed
   /\ ~rightCtrlPressed
   /\ keyerState = "idle"
   /\ Settled
   /\ ~Waiting(T("cw", "init", 0)))
  => ~pttActive

\* C34: the tone is on only while the keyer phase is sending_dit or
\* sending_dah, however late a tone start completes.
C34_ToneOnlyWhileSending ==
  toneOn => keyerState \in Sending

KeyerAtRest ==
  /\ keyerState = "idle"
  /\ keyerTimer = NoKeyerTimer
  /\ pendingElement = "none"

\* C35: whenever both paddles are up the keyer comes to rest (idle, no element
\* timer, nothing queued) unless a paddle is pressed first, and an element
\* starts only in a step that leaves a paddle down.
C35_KeyerComesToRest ==
  /\ KeyerFairness =>
        ((~leftCtrlPressed /\ ~rightCtrlPressed)
           ~> (KeyerAtRest \/ leftCtrlPressed \/ rightCtrlPressed))
  /\ [][(keyerState' \in Sending /\ keyerState' # keyerState)
         => (leftCtrlPressed' \/ rightCtrlPressed')]_vars

\* the keyer is at rest after a dah, both paddles up
C35_AtRestAfterDah ==
  /\ KeyerAtRest
  /\ lastElement = "dah"
  /\ ~leftCtrlPressed
  /\ ~rightCtrlPressed

\* C36: when the teardown request of a stopWebRTC settles and the global pc
\* is by then a newer transport than the one that call closed, the newer
\* transport is kept: pc and webrtcConnected are unchanged.
C36_TeardownSparesNewerSession ==
  [][\A p \in 0..MaxPc :
       (StopFinish(p) /\ pc # 0 /\ pc # p)
       => (pc' = pc /\ webrtcConnected' = webrtcConnected)]_vars

\* C37: whenever the microphone is reported enabled, its captured track is
\* live: it has not been stopped and the stream is held.
C37_EnabledMicIsLive ==
  micEnabled => micStream = "live"

\* C38: disabling the microphone leaves the CW tone track attached wherever
\* it was attached and leaves the session as it was.
C38_MicRemovalKeepsToneTrack ==
  [][MicDisableClick =>
       /\ \A p \in Pcs : tp'[p].tone = tp[p].tone
       /\ pc' = pc
       /\ webrtcConnected' = webrtcConnected]_vars

\* C39: an auto-reset timer resets only the tune session that armed it: when
\* a timer fires while a later session is active, whose own timer (the one
\* armed last) still has time to run, tuneActive stays set.
C39_StaleTimerSparesLaterTune ==
  [][(TuneTimerFire /\ tuneActive /\ tuneTimers[Len(tuneTimers)] > 0)
       => tuneActive']_vars

\* C40: the hang timer never releases a transmit that was engaged with the
\* PTT button: when it fires during such a transmit, PTT stays active.
C40_HangTimerSparesManualPtt ==
  [][(HangFire /\ pttByButton) => pttActive']_vars
====
